---- MODULE Spec2Model ----
(***************************************************************************)
(* Model of the sentinel-app server scaffold: server/main.py and           *)
(* server/app/api/routes_auth.py.                                          *)
(*                                                                         *)
(* Spec     the application as it runs: the module body of main.py is      *)
(*          executed statement by statement, the startup event fires, and  *)
(*          requests are accepted and dispatched over the route table.     *)
(* ApiSpec  the module's functions create_db_and_tables and get_session    *)
(*          driven by arbitrary callers (no route of main.py declares      *)
(*          SessionDep, so the running application never calls             *)
(*          get_session itself).                                           *)
(*                                                                         *)
(* A path is the sequence of its segments: "/" is <<>>, "/auth" is         *)
(* <<"auth">>, "/auth/" is <<"auth", "">>, "/auth/login" is                *)
(* <<"auth", "login">>.  A JSON body with one key is the pair <<key, value>>.*)
(***************************************************************************)
EXTENDS Naturals, Sequences, FiniteSets

VARIABLES
    pc,              \* next statement of main.py's module body
    engine,          \* main.py: engine
    routes,          \* app.router.routes
    startupHandlers, \* app.router.on_startup
    lifecycle,       \* "uninitialized" | "serving" | "failed"
    startupCalls,    \* number of invocations of on_startup
    schemaReady,     \* create_db_and_tables has returned without error
    initError,       \* error raised by the startup hook, "none" if none
    storage,         \* environment: "ok" | "readonly" | "unreachable"
    dbFile,          \* database.db on disk: [exists, tables]
    dbAtStart,       \* dbFile when the process started
    requests,        \* accepted requests, in order of acceptance
    responses,       \* responses[i] answers requests[i]; NoResponse while handled
    schemaLog,       \* ApiSpec: result of each create_db_and_tables call
    dep,             \* ApiSpec: per caller, position in get_session
    held,            \* ApiSpec: per caller, the session get_session yielded (0: none)
    outcome,         \* ApiSpec: per caller, how its handler ended
    sessions         \* ApiSpec: sessions constructed so far, in order

vars == <<pc, engine, routes, startupHandlers, lifecycle, startupCalls, schemaReady,
          initError, storage, dbFile, dbAtStart, requests, responses, schemaLog,
          dep, held, outcome, sessions>>

apiVars == <<schemaLog, dep, held, outcome, sessions>>

-----------------------------------------------------------------------------
(* Bounds *)

MaxRequests == 2
MaxCallers == 2
MaxSchemaCalls == 2

Methods == {"GET", "HEAD", "POST"}
Payloads == {"empty", "json"}
Paths == { <<>>, <<"auth">>, <<"auth", "">>, <<"auth", "login">>,
           <<"docs", "">>, <<"items">> }
PreTables == {"legacy"}
Storages == {"ok", "readonly", "unreachable"}
Callers == 1..MaxCallers

-----------------------------------------------------------------------------
(* main.py, module level *)

sqlite_file_name == "database.db"

memory_url == [driver |-> "sqlite", file |-> ""]

\* f"sqlite:///{sqlite_file_name}"
sqlite_url == [driver |-> "sqlite", file |-> sqlite_file_name]

connect_args == FALSE   \* check_same_thread

NoEngine == [url |-> [driver |-> "unset", file |-> ""], check_same_thread |-> TRUE]

create_engine(url, same_thread) == [url |-> url, check_same_thread |-> same_thread]

\* SQLModel.metadata: main.py declares no table model
Metadata == {}

NoFile == [exists |-> FALSE, tables |-> {}]

\* MetaData.create_all(engine): opens a connection (sqlite creates the file when
\* it can), then creates the declared tables, skipping those present when
\* checkfirst.
create_all(url, metadata, checkfirst, db, st) ==
    IF url.file = "" THEN [db |-> db, error |-> "none"]
    ELSE IF st = "unreachable" \/ (st = "readonly" /\ ~db.exists)
    THEN [db |-> db, error |-> "OperationalError"]
    ELSE LET opened == [exists |-> TRUE, tables |-> db.tables]
             todo == IF checkfirst THEN metadata \ opened.tables ELSE metadata
         IN  IF todo # {} /\ (st = "readonly" \/ todo \cap opened.tables # {})
             THEN [db |-> opened, error |-> "OperationalError"]
             ELSE [db |-> [opened EXCEPT !.tables = @ \cup todo], error |-> "none"]

create_db_and_tables_raw(eng, db, st) == create_all(eng.url, {"hero"}, FALSE, db, st)

create_db_and_tables(eng, db, st) == create_all(eng.url, Metadata, TRUE, db, st)

on_startup_swallow(eng, db, st) ==
    LET r == create_db_and_tables(eng, db, st)
    IN  [db |-> r.db, schemaError |-> r.error, raised |-> "none"]

\* on_startup: calls create_db_and_tables; its exception propagates
on_startup(eng, db, st) ==
    LET r == create_db_and_tables(eng, db, st)
    IN  [db |-> r.db, schemaError |-> r.error, raised |-> r.error]

root_typo == <<"message", "Hello, World">>

\* root(): the returned dict
root == <<"message", "Hello World">>

-----------------------------------------------------------------------------
(* routes_auth.py *)

router_prefix == <<"auth">>

router_responses == <<"description", "Not found">>

router_routes_login ==
    << [path |-> <<"login">>, methods |-> {"POST"}, endpoint |-> "login"] >>

router_routes_status ==
    << [path |-> <<"login">>, methods |-> {"GET"}, endpoint |-> "login_status"] >>

\* routes_auth.router.routes: the module declares no endpoint
router_routes == << >>

-----------------------------------------------------------------------------
(* FastAPI application: route table and dispatch *)

\* FastAPI(): the documentation routes set up by the constructor
DefaultRoutes ==
    << [path |-> <<"openapi.json">>, methods |-> {"GET", "HEAD"}, endpoint |-> "openapi"],
       [path |-> <<"docs">>, methods |-> {"GET", "HEAD"}, endpoint |-> "swagger"],
       [path |-> <<"docs", "oauth2-redirect">>, methods |-> {"GET", "HEAD"},
        endpoint |-> "swagger_redirect"],
       [path |-> <<"redoc">>, methods |-> {"GET", "HEAD"}, endpoint |-> "redoc"] >>

\* app.include_router(router): one route per route of the router, prefixed
include_router(rs, prefix, added) ==
    rs \o [i \in 1..Len(added) |-> [added[i] EXCEPT !.path = prefix \o @]]

\* @app.get("/")
root_route == [path |-> <<>>, methods |-> {"GET"}, endpoint |-> "root"]

register_twice(hs) == Append(Append(hs, "on_startup"), "on_startup")

register_nothing(hs) == hs

\* @app.on_event("startup")
register_startup(hs) == Append(hs, "on_startup")

Match(route, method, path) ==
    IF route.path # path THEN "NONE"
    ELSE IF method \in route.methods THEN "FULL" ELSE "PARTIAL"

ToggleSlash(path) ==
    IF path[Len(path)] = "" THEN SubSeq(path, 1, Len(path) - 1) ELSE Append(path, "")

Call(endpoint) ==
    IF endpoint = "root" THEN [status |-> 200, body |-> root]
    ELSE [status |-> 200, body |-> <<"endpoint", endpoint>>]

\* the framework's handler for an unmatched path
not_found == [status |-> 404, body |-> <<"detail", "Not Found">>]

\* Router dispatch: first full match; else 405 on a path-only match; else a
\* redirect when the path with its trailing slash toggled matches; else 404.
Dispatch(rs, method, path) ==
    LET full == {i \in 1..Len(rs) : Match(rs[i], method, path) = "FULL"}
        partial == {i \in 1..Len(rs) : Match(rs[i], method, path) = "PARTIAL"}
        first(S) == CHOOSE i \in S : \A j \in S : i <= j
    IN  IF full # {} THEN Call(rs[first(full)].endpoint)
        ELSE IF partial # {}
        THEN [status |-> 405, body |-> <<"detail", "Method Not Allowed">>]
        ELSE IF path # <<>> /\
                \E i \in 1..Len(rs) : Match(rs[i], method, ToggleSlash(path)) # "NONE"
        THEN [status |-> 307, body |-> <<"location", "redirect">>]
        ELSE not_found

NoResponse == [status |-> 0, body |-> <<"none", "none">>]

-----------------------------------------------------------------------------
(* Spec: the application *)

InitFiles ==
    {NoFile} \cup {[exists |-> TRUE, tables |-> t] : t \in SUBSET PreTables}

Init ==
    /\ pc = "engine"
    /\ engine = NoEngine
    /\ routes = << >>
    /\ startupHandlers = << >>
    /\ lifecycle = "uninitialized"
    /\ startupCalls = 0
    /\ schemaReady = FALSE
    /\ initError = "none"
    /\ storage \in Storages
    /\ dbFile \in InitFiles
    /\ dbAtStart = dbFile
    /\ requests = << >>
    /\ responses = << >>
    /\ schemaLog = << >>
    /\ dep = [c \in Callers |-> "idle"]
    /\ held = [c \in Callers |-> 0]
    /\ outcome = [c \in Callers |-> "none"]
    /\ sessions = << >>

\* main.py:10
LoadEngine ==
    /\ pc = "engine"
    /\ engine' = create_engine(sqlite_url, connect_args)
    /\ pc' = "app"
    /\ UNCHANGED <<routes, startupHandlers, lifecycle, startupCalls, schemaReady,
                   initError, storage, dbFile, dbAtStart, requests, responses>>
    /\ UNCHANGED apiVars

\* main.py:24
CreateApp ==
    /\ pc = "app"
    /\ routes' = DefaultRoutes
    /\ pc' = "include"
    /\ UNCHANGED <<engine, startupHandlers, lifecycle, startupCalls, schemaReady,
                   initError, storage, dbFile, dbAtStart, requests, responses>>
    /\ UNCHANGED apiVars

\* main.py:26
IncludeRouter ==
    /\ pc = "include"
    /\ routes' = include_router(routes, router_prefix, router_routes)
    /\ pc' = "hook"
    /\ UNCHANGED <<engine, startupHandlers, lifecycle, startupCalls, schemaReady,
                   initError, storage, dbFile, dbAtStart, requests, responses>>
    /\ UNCHANGED apiVars

\* main.py:27
RegisterStartup ==
    /\ pc = "hook"
    /\ startupHandlers' = register_startup(startupHandlers)
    /\ pc' = "route"
    /\ UNCHANGED <<engine, routes, lifecycle, startupCalls, schemaReady,
                   initError, storage, dbFile, dbAtStart, requests, responses>>
    /\ UNCHANGED apiVars

\* main.py:32
RegisterRoot ==
    /\ pc = "route"
    /\ routes' = Append(routes, root_route)
    /\ pc' = "loaded"
    /\ UNCHANGED <<engine, startupHandlers, lifecycle, startupCalls, schemaReady,
                   initError, storage, dbFile, dbAtStart, requests, responses>>
    /\ UNCHANGED apiVars

\* The handlers of app.router.on_startup run in order; the first that raises
\* stops the run.  Result: the file, the error the framework sees, the error
\* schema initialization met, the number of handlers invoked, and whether
\* schema initialization returned.
RECURSIVE RunStartup(_, _, _, _)
RunStartup(hs, eng, db, st) ==
    IF hs = << >>
    THEN [db |-> db, raised |-> "none", schemaError |-> "none", calls |-> 0,
          ready |-> FALSE]
    ELSE LET r == on_startup(eng, db, st)
             rest == RunStartup(Tail(hs), eng, r.db, st)
         IN  IF r.raised # "none"
             THEN [db |-> r.db, raised |-> r.raised, schemaError |-> r.schemaError,
                   calls |-> 1, ready |-> FALSE]
             ELSE [db |-> rest.db, raised |-> rest.raised,
                   schemaError |-> IF r.schemaError # "none" THEN r.schemaError
                                   ELSE rest.schemaError,
                   calls |-> 1 + rest.calls,
                   ready |-> r.schemaError = "none" /\ rest.schemaError = "none"]

\* lifespan startup: serving when every handler returned, failed when one raised
Startup ==
    /\ pc = "loaded"
    /\ lifecycle = "uninitialized"
    /\ LET r == RunStartup(startupHandlers, engine, dbFile, storage)
       IN  /\ dbFile' = r.db
           /\ startupCalls' = startupCalls + r.calls
           /\ schemaReady' = r.ready
           /\ initError' = r.schemaError
           /\ lifecycle' = IF r.raised = "none" THEN "serving" ELSE "failed"
    /\ UNCHANGED <<pc, engine, routes, startupHandlers, storage, dbAtStart,
                   requests, responses>>
    /\ UNCHANGED apiVars

Accept ==
    /\ lifecycle = "serving"
    /\ Len(requests) < MaxRequests
    /\ \E m \in Methods, p \in Paths, h \in Payloads :
          requests' = Append(requests, [method |-> m, path |-> p, payload |-> h])
    /\ responses' = Append(responses, NoResponse)
    /\ UNCHANGED <<pc, engine, routes, startupHandlers, lifecycle, startupCalls,
                   schemaReady, initError, storage, dbFile, dbAtStart>>
    /\ UNCHANGED apiVars

Respond ==
    /\ \E i \in 1..Len(requests) :
          /\ responses[i] = NoResponse
          /\ responses' = [responses EXCEPT
                             ![i] = Dispatch(routes, requests[i].method, requests[i].path)]
    /\ UNCHANGED <<pc, engine, routes, startupHandlers, lifecycle, startupCalls,
                   schemaReady, initError, storage, dbFile, dbAtStart, requests>>
    /\ UNCHANGED apiVars

Next ==
    \/ LoadEngine
    \/ CreateApp
    \/ IncludeRouter
    \/ RegisterStartup
    \/ RegisterRoot
    \/ Startup
    \/ Accept
    \/ Respond

Spec == Init /\ [][Next]_vars

-----------------------------------------------------------------------------
(* ApiSpec: create_db_and_tables and get_session called by arbitrary callers *)

shared_session(ss) == 1

\* Session(engine): a new session object for each call of get_session
new_session(ss) == Len(ss) + 1

close_on_return_only(o) == o = "return"

\* `with Session(engine) as session:` runs Session.__exit__ however the
\* generator is resumed: next(), throw() or close()
with_exit_closes(o) == TRUE

OpenSession == [state |-> "open", conn |-> FALSE]

ClosedSession == [state |-> "closed", conn |-> FALSE]

Outcomes == {"return", "raise", "cancel"}

Active(c) == dep[c] \in {"yielded", "exiting"}

ApiInit ==
    /\ pc = "loaded"
    /\ engine = create_engine(sqlite_url, connect_args)
    /\ routes = Append(include_router(DefaultRoutes, router_prefix, router_routes),
                       root_route)
    /\ startupHandlers = register_startup(<< >>)
    /\ lifecycle = "uninitialized"
    /\ startupCalls = 0
    /\ schemaReady = FALSE
    /\ initError = "none"
    /\ storage \in Storages
    /\ dbFile \in InitFiles
    /\ dbAtStart = dbFile
    /\ requests = << >>
    /\ responses = << >>
    /\ schemaLog = << >>
    /\ dep = [c \in Callers |-> "idle"]
    /\ held = [c \in Callers |-> 0]
    /\ outcome = [c \in Callers |-> "none"]
    /\ sessions = << >>

appUnchanged ==
    UNCHANGED <<pc, engine, routes, startupHandlers, lifecycle, startupCalls,
                schemaReady, initError, storage, dbAtStart, requests, responses>>

\* a direct call of create_db_and_tables()
CallCreateDbAndTables ==
    /\ Len(schemaLog) < MaxSchemaCalls
    /\ LET r == create_db_and_tables(engine, dbFile, storage)
       IN  /\ dbFile' = r.db
           /\ schemaLog' = Append(schemaLog, r)
    /\ appUnchanged
    /\ UNCHANGED <<dep, held, outcome, sessions>>

\* get_session() up to its yield: the session is constructed and entered
SessionEnter(c) ==
    /\ dep[c] = "idle"
    /\ LET sid == new_session(sessions)
       IN  /\ held' = [held EXCEPT ![c] = sid]
           /\ sessions' = IF sid > Len(sessions) THEN Append(sessions, OpenSession)
                          ELSE [sessions EXCEPT ![sid].state = "open"]
    /\ dep' = [dep EXCEPT ![c] = "yielded"]
    /\ appUnchanged
    /\ UNCHANGED <<dbFile, schemaLog, outcome>>

\* the caller works with the yielded session: it checks a connection out
HandlerUse(c) ==
    /\ dep[c] = "yielded"
    /\ sessions[held[c]].state = "open"
    /\ ~sessions[held[c]].conn
    /\ sessions' = [sessions EXCEPT ![held[c]].conn = TRUE]
    /\ appUnchanged
    /\ UNCHANGED <<dbFile, schemaLog, dep, held, outcome>>

\* the caller's handler ends: it returns, raises, or is cancelled
HandlerEnd(c) ==
    /\ dep[c] = "yielded"
    /\ \E o \in Outcomes : outcome' = [outcome EXCEPT ![c] = o]
    /\ dep' = [dep EXCEPT ![c] = "exiting"]
    /\ appUnchanged
    /\ UNCHANGED <<dbFile, schemaLog, held, sessions>>

\* get_session() after its yield: the generator is resumed and leaves the
\* with block
SessionExit(c) ==
    /\ dep[c] = "exiting"
    /\ sessions' = IF with_exit_closes(outcome[c])
                   THEN [sessions EXCEPT ![held[c]] = ClosedSession]
                   ELSE sessions
    /\ dep' = [dep EXCEPT ![c] = "done"]
    /\ appUnchanged
    /\ UNCHANGED <<dbFile, schemaLog, held, outcome>>

ApiNext ==
    \/ CallCreateDbAndTables
    \/ \E c \in Callers : SessionEnter(c)
    \/ \E c \in Callers : HandlerUse(c)
    \/ \E c \in Callers : HandlerEnd(c)
    \/ \E c \in Callers : SessionExit(c)

ApiSpec == ApiInit /\ [][ApiNext]_vars

-----------------------------------------------------------------------------
(* Properties *)

Answered(i) == i \in 1..Len(requests) /\ responses[i] # NoResponse

IsRootGet(i) == requests[i].method = "GET" /\ requests[i].path = << >>

UnderAuth(path) == Len(path) >= 2 /\ path[1] = "auth"

Hello == [status |-> 200, body |-> <<"message", "Hello World">>]

\* C1: every answered GET request to "/" has status 200 and the body
\* {"message": "Hello World"}, whatever its headers or body and whatever was
\* handled before it.
C1_RootAlwaysHello ==
    \A i \in 1..Len(requests) : Answered(i) /\ IsRootGet(i) => responses[i] = Hello

\* a GET / carrying a JSON payload, answered after an earlier request to
\* another path was answered
C1_Witness ==
    /\ Len(requests) = 2
    /\ Answered(1) /\ requests[1].path = <<"auth", "login">> /\ requests[1].method = "POST"
    /\ Answered(2) /\ IsRootGet(2) /\ requests[2].payload = "json"

\* C2: every answered request, of any method, to a path beginning "/auth/" has
\* status 404, and mounting the auth router adds no entry to the route table:
\* once the router is included the table holds the documentation routes (and
\* later the root route) and no route under /auth.
C2_AuthAlways404 ==
    /\ \A i \in 1..Len(requests) :
          Answered(i) /\ UnderAuth(requests[i].path) => responses[i].status = 404
    /\ pc \in {"hook", "route"} => routes = DefaultRoutes
    /\ pc = "loaded" => routes = Append(DefaultRoutes, root_route)
    /\ \A k \in 1..Len(routes) : routes[k].path = << >> \/ routes[k].path[1] # "auth"

\* requests with two different methods to paths under /auth/, both answered
C2_Witness ==
    /\ Len(requests) = 2
    /\ Answered(1) /\ requests[1].path = <<"auth", "login">> /\ requests[1].method = "POST"
    /\ Answered(2) /\ requests[2].path = <<"auth", "">> /\ requests[2].method = "HEAD"

\* C3: whenever a request has been accepted the lifecycle is serving and the
\* startup hook has run create_db_and_tables to completion: no request is
\* handled while the application is uninitialized.
C3_InitBeforeRequests ==
    Len(requests) > 0 =>
        /\ lifecycle = "serving"
        /\ schemaReady
        /\ startupCalls >= 1
        /\ dbFile.exists

\* a request being handled (accepted, not yet answered) on a process that
\* started without a database file
C3_Witness ==
    /\ Len(requests) = 1
    /\ responses[1] = NoResponse
    /\ ~dbAtStart.exists

\* C4: when schema initialization raises at startup the lifecycle is failed,
\* no request is ever accepted, and the hook has run once and is not retried.
C4_FailedStartupNeverServes ==
    initError # "none" =>
        /\ lifecycle = "failed"
        /\ requests = << >>
        /\ startupCalls = 1

\* the startup hook failed on unreachable storage
C4_Witness ==
    /\ initError = "OperationalError"
    /\ storage = "unreachable"
    /\ lifecycle = "failed"

\* C5: an open session belongs to a caller whose request is still in
\* progress; once a caller is done, however its handler ended, its session is
\* closed and holds no connection; when no request is in progress no session
\* is open.
C5_SessionReleased ==
    /\ \A s \in 1..Len(sessions) :
          sessions[s] # ClosedSession => \E c \in Callers : Active(c) /\ held[c] = s
    /\ \A c \in Callers : dep[c] = "done" => sessions[held[c]] = ClosedSession
    /\ (\A c \in Callers : ~Active(c)) =>
          \A s \in 1..Len(sessions) : sessions[s] = ClosedSession

\* two requests have completed, one whose handler raised and one that was
\* cancelled
C5_Witness ==
    /\ \A c \in Callers : dep[c] = "done"
    /\ \E c \in Callers : outcome[c] = "raise"
    /\ \E c \in Callers : outcome[c] = "cancel"

\* C6: two callers whose requests are in progress never hold the same session,
\* and the engine stays the one created at import.
C6_OwnSession ==
    /\ \A c1, c2 \in Callers :
          c1 # c2 /\ Active(c1) /\ Active(c2) => held[c1] # held[c2]
    /\ engine = create_engine(sqlite_url, connect_args)

\* two requests hold sessions at the same time, both with a connection
C6_Witness ==
    /\ \A c \in Callers : dep[c] = "yielded" /\ sessions[held[c]].conn

\* C7: a call of create_db_and_tables that follows a call that returned
\* without error returns without error too and leaves the file as the first
\* call left it.
C7_SchemaInitIdempotent ==
    \A k \in 1..Len(schemaLog) :
        k > 1 /\ schemaLog[k - 1].error = "none" => schemaLog[k] = schemaLog[k - 1]

\* two calls in succession on a file that did not exist
C7_Witness ==
    /\ Len(schemaLog) >= 2
    /\ schemaLog[1].error = "none"
    /\ ~dbAtStart.exists

\* C8: on a process started without a database file, an answered GET / has
\* status 200 and the fixed payload, and the database file then exists with
\* no table.
C8_FreshStart ==
    \A i \in 1..Len(requests) :
        ~dbAtStart.exists /\ Answered(i) /\ IsRootGet(i) =>
            /\ responses[i] = Hello
            /\ dbFile = [exists |-> TRUE, tables |-> {}]

\* the first request of a process started without a database file is GET /
\* and is answered
C8_Witness ==
    /\ ~dbAtStart.exists
    /\ Len(requests) = 1
    /\ Answered(1) /\ IsRootGet(1)

\* C9 as stated: an answered request to a path under /auth has status 404 and
\* the body {"description": "Not found"}.
C9_AuthBodyIsDescription ==
    \A i \in 1..Len(requests) :
        Answered(i) /\ UnderAuth(requests[i].path) =>
            responses[i] = [status |-> 404, body |-> router_responses]

\* C9 amended: an answered request to a path under /auth has status 404 and
\* the framework's default body {"detail": "Not Found"}.
C9_AuthBodyIsDetail ==
    \A i \in 1..Len(requests) :
        Answered(i) /\ UnderAuth(requests[i].path) =>
            responses[i] = [status |-> 404, body |-> <<"detail", "Not Found">>]

\* a GET to /auth/login answered
C9_Witness ==
    /\ Len(requests) >= 1
    /\ Answered(1) /\ requests[1].path = <<"auth", "login">> /\ requests[1].method = "GET"

\* C10: the lifecycle only moves from uninitialized to serving or to failed,
\* that step is the single invocation of the startup hook, and after it neither
\* the lifecycle nor the number of invocations changes.
C10_Lifecycle ==
    [][ /\ lifecycle # "uninitialized" =>
              lifecycle' = lifecycle /\ startupCalls' = startupCalls
        /\ lifecycle = "uninitialized" =>
              \/ lifecycle' = lifecycle /\ startupCalls' = startupCalls
              \/ /\ lifecycle' \in {"serving", "failed"}
                 /\ startupCalls = 0
                 /\ startupCalls' = 1 ]_vars

\* a serving process that has answered a request after one hook invocation
C10_Witness ==
    /\ lifecycle = "serving"
    /\ startupCalls = 1
    /\ Len(requests) = MaxRequests
    /\ \A i \in 1..Len(requests) : Answered(i)

====
